---- MODULE Spec2Model ----
(***************************************************************************)
(* Model of the txt2voice engine registry (src/src/core/tts_engine.py) and *)
(* of the four backend adapters it dispatches to.                          *)
(*                                                                         *)
(* Python strings that the code takes apart (startswith, slicing) are      *)
(* modelled as sequences of tokens: "edge_tts_female" is                   *)
(* <<"edge_tts_", "female">>, "zh-CN-XiaoxiaoNeural" is                    *)
(* <<"zh-CN-", "Xiaoxiao", "Neural">>.  Audio is modelled by its sample    *)
(* count; NoAudio is Python's None, Raises is an exception.                *)
(***************************************************************************)
EXTENDS Integers, Sequences, FiniteSets, TLC

VARIABLES
    available_engines,  \* TTSEngine.available_engines (a list)
    current_engine,     \* TTSEngine.current_engine (None or a name)
    model,              \* model[e]: adapter e's self.model is not None
    edge_voices,        \* EdgeTTSIntegration.available_voices
    pyttsx3_voices,     \* Pyttsx3Integration.available_voices
    use_real_model,     \* RealCosyVoice2Integration.use_real_model
    backend,            \* what the voice services report when listed
    load_state,         \* per engine: outcome of its latest load attempt
    load_attempts,      \* per engine: number of load attempts so far
    main_pc,            \* position of the process's start-up path
    syn,                \* the synthesize call in progress, if any
    last,               \* the most recent step: operation, inputs, result
    edge_call,          \* EdgeTTSIntegration.synthesize in progress: its retry loop
    cache,              \* Cache.cache: key -> value
    access_times,       \* Cache.access_times, in the dict's insertion order
    cache_lock,         \* Cache.lock: the thread that holds it, or Free
    cache_pc,           \* per thread: its position in a Cache method
    time_now,                \* what time.time() returns
    lru,                \* the cache's keys, least recently got or set first
    gui,                \* MainWindow: its buttons, current_audio, open error dialogs
    workers,            \* the SynthesisThread objects start_synthesis has created
    gui_events,         \* signals queued for the GUI thread's event loop
    batch,              \* BatchSynthesisThread: its position and what it has emitted
    wav,                \* an audio array, the file save_audio wrote, what load_audio read
    ph,                 \* the stand-in CosyVoice model: its library, the calls made
    cli,                \* the command of main.py that runs: its position, its log
    core_batch          \* a call of the core batch processor: its input, its outcome

\* the engine registry and its adapters
reg_vars == <<available_engines, current_engine, model, edge_voices,
              pyttsx3_voices, use_real_model, backend, load_state,
              load_attempts, main_pc, syn>>

cache_vars == <<cache, access_times, cache_lock, cache_pc, time_now, lru>>

gui_vars == <<gui, workers, gui_events>>

\* what the steps of one component leave alone
not_edge == <<reg_vars, cache_vars, gui_vars, batch, wav, ph, cli, core_batch>>
not_cache == <<reg_vars, edge_call, gui_vars, batch, wav, ph, cli, core_batch>>
not_gui == <<reg_vars, edge_call, cache_vars, batch, wav, ph, cli, core_batch>>
not_batch == <<reg_vars, edge_call, cache_vars, gui_vars, wav, ph, cli, core_batch>>
not_wav == <<reg_vars, edge_call, cache_vars, gui_vars, batch, ph, cli, core_batch>>
not_ph == <<reg_vars, edge_call, cache_vars, gui_vars, batch, wav, cli, core_batch>>
not_cli == <<edge_call, cache_vars, gui_vars, batch, wav, ph, core_batch>>
not_core_batch == <<reg_vars, edge_call, cache_vars, gui_vars, batch, wav, ph, cli>>

\* the state outside the engine registry and its adapters' load state
ext_vars == <<edge_call, cache_vars, gui_vars, batch, wav, ph, cli, core_batch>>

vars == <<available_engines, current_engine, model, edge_voices,
          pyttsx3_voices, use_real_model, backend, load_state,
          load_attempts, main_pc, syn, last, ext_vars>>

----------------------------------------------------------------------------
(* Bounds *)

MaxVoices == 2      \* longest voice list a backend reports
MaxSamples == 1     \* largest sample count of a backend's audio
MaxTime == 2        \* latest reading of the clock
MaxWorkers == 2     \* most SynthesisThread objects created in a run
MaxTasks == 3       \* most tasks of a batch job
MaxFrames == 3      \* most samples of an audio array that is saved
MaxTextLen == 2     \* longest text, in characters, of a request

----------------------------------------------------------------------------
(* Values *)

None == "None"
NoAudio == -1       \* a synthesize result of None
Raises == -2        \* the backend raised an exception

Engines == <<"edge_tts", "gtts", "pyttsx3", "cosyvoice">>
EngineNames == {Engines[i] : i \in 1..Len(Engines)}
UnknownEngine == "festival"

BasePacks == {"default", "female", "male", "child", "elder", "robot", "angry", "sad"}

NoneStr == <<"<None>">>                 \* None where a string is expected
Str(tok) == <<tok>>

StartsWith(s, p) == Len(s) >= Len(p) /\ SubSeq(s, 1, Len(p)) = p
EndsWith(s, p) == Len(s) >= Len(p) /\ SubSeq(s, Len(s) - Len(p) + 1, Len(s)) = p
DropPrefix(s, p) == SubSeq(s, Len(p) + 1, Len(s))

\* dict.get(key, default) for a dict keyed by plain names
DictGet(d, key, default) ==
    IF Len(key) = 1 /\ key[1] \in DOMAIN d THEN d[key[1]] ELSE default

EmptyDict == [k \in {} |-> NoneStr]

----------------------------------------------------------------------------
(* Edge-TTS adapter: src/src/core/edge_tts_integration.py *)

XiaoxiaoNeural == <<"zh-CN-", "Xiaoxiao", "Neural">>
YunjianNeural == <<"zh-CN-", "Yunjian", "Neural">>
AriaNeural == <<"en-US-", "Aria", "Neural">>

\* voices as edge_tts.list_voices() reports them
EdgeBackendVoices ==
    { [name |-> XiaoxiaoNeural, gender |-> "Female", locale |-> "zh-CN"],
      [name |-> YunjianNeural, gender |-> "Male", locale |-> "zh-CN"],
      [name |-> AriaNeural, gender |-> "Female", locale |-> "en-US"] }

\* _load_available_voices: keep the zh-CN voices; [] when listing fails
edge_load_available_voices(reported, list_ok) ==
    IF list_ok
    THEN SelectSeq(reported, LAMBDA v : v.locale = "zh-CN" \/ StartsWith(v.name, <<"zh-CN-">>))
    ELSE <<>>

edge_get_voice_pack_mapping(voices) ==
    IF voices = <<>> THEN EmptyDict
    ELSE
      LET female_voices == SelectSeq(voices, LAMBDA v : v.gender = "Female")
          male_voices == SelectSeq(voices, LAMBDA v : v.gender = "Male")
          fkeys == IF female_voices # <<>>
                   THEN {"female", "default", "child", "angry", "sad"} ELSE {}
          mkeys == IF male_voices # <<>> THEN {"male", "elder", "robot"} ELSE {}
      IN [k \in fkeys \cup mkeys |->
             IF k \in fkeys THEN female_voices[1].name ELSE male_voices[1].name]

\* the voice that synthesize passes to edge_tts.Communicate (lines 137-150)
edge_resolve_voice(voices, voice_pack) ==
    LET voice_mapping == edge_get_voice_pack_mapping(voices)
        base_voice_pack == IF StartsWith(voice_pack, <<"edge_tts_">>)
                           THEN DropPrefix(voice_pack, <<"edge_tts_">>)
                           ELSE voice_pack
    IN IF StartsWith(base_voice_pack, <<"zh-CN-">>) /\ EndsWith(base_voice_pack, <<"Neural">>)
       THEN base_voice_pack
       ELSE DictGet(voice_mapping, base_voice_pack,
                    DictGet(voice_mapping, Str("default"), XiaoxiaoNeural))

max_retries == 3

RECURSIVE edge_retry_loop(_, _)
\* the retry loop (lines 204-234); outs[a] is what attempt a produces
edge_retry_loop(outs, attempt) ==
    IF attempt >= max_retries THEN [audio |-> NoAudio, attempts |-> attempt]
    ELSE LET audio == outs[attempt + 1]
         IN IF audio > 0 THEN [audio |-> audio, attempts |-> attempt + 1]
            ELSE IF attempt < max_retries - 1 THEN edge_retry_loop(outs, attempt + 1)
            ELSE [audio |-> NoAudio, attempts |-> attempt + 1]

\* edge_attempt with a loop of max_retries + 1 passes
edge_attempt_one_more(attempt, out) ==
    IF out > 0 THEN [done |-> TRUE, audio |-> out, attempt |-> attempt]
    ELSE IF attempt < max_retries THEN [done |-> FALSE, audio |-> NoAudio,
                                        attempt |-> attempt + 1]
    ELSE [done |-> TRUE, audio |-> NoAudio, attempt |-> attempt]

\* one pass of the retry loop (lines 205-232), in which the remote call
\* gives out: audio is returned, else the loop sleeps and continues while
\* attempt < max_retries - 1, else None is returned
edge_attempt(attempt, out) ==
    IF out > 0 THEN [done |-> TRUE, audio |-> out, attempt |-> attempt]
    ELSE IF attempt < max_retries - 1 THEN [done |-> FALSE, audio |-> NoAudio,
                                            attempt |-> attempt + 1]
    ELSE [done |-> TRUE, audio |-> NoAudio, attempt |-> attempt]

edge_synthesize(loaded, voices, voice_pack, outs) ==
    IF ~loaded THEN [audio |-> NoAudio, voice |-> NoneStr, attempts |-> 0]
    ELSE LET r == edge_retry_loop(outs, 0)
         IN [audio |-> r.audio, voice |-> edge_resolve_voice(voices, voice_pack),
             attempts |-> r.attempts]

----------------------------------------------------------------------------
(* gTTS adapter: src/src/core/gtts_integration.py *)

gtts_get_voice_pack_mapping ==
    [k \in BasePacks |->
        CASE k = "male" -> [lang |-> Str("zh-tw"), tld |-> Str("com")]
          [] k = "robot" -> [lang |-> Str("en"), tld |-> Str("com")]
          [] OTHER -> [lang |-> Str("zh-cn"), tld |-> Str("com")]]

gtts_resolve_config(voice_pack) ==
    LET language_configs == gtts_get_voice_pack_mapping
    IN DictGet(language_configs, voice_pack, language_configs["default"])

\* the audio read back from the saved file is returned as it is (lines 83-94)
gtts_synthesize(loaded, voice_pack, outs) ==
    IF ~loaded THEN [audio |-> NoAudio, voice |-> NoneStr, attempts |-> 0]
    ELSE LET audio == outs[1]
         IN [audio |-> IF audio \in {Raises, NoAudio} THEN NoAudio ELSE audio,
             voice |-> gtts_resolve_config(voice_pack).lang, attempts |-> 1]

----------------------------------------------------------------------------
(* pyttsx3 adapter: src/src/core/pyttsx3_integration.py *)

HuihuiId == <<"TTS_MS_ZH-CN_HUIHUI_11.0">>
ZiraId == <<"TTS_MS_EN-US_ZIRA_11.0">>
KangkangId == <<"TTS_MS_ZH-CN_KANGKANG_11.0">>
EspeakId == <<"default">>

\* voices as pyttsx3 reports them; the flags say which words the lower-cased
\* name and id contain (lines 60-72)
Pyttsx3BackendVoices ==
    { [id |-> HuihuiId, zh |-> TRUE, en |-> FALSE, female |-> TRUE, male |-> FALSE],
      [id |-> ZiraId, zh |-> FALSE, en |-> TRUE, female |-> FALSE, male |-> TRUE],
      [id |-> KangkangId, zh |-> TRUE, en |-> FALSE, female |-> FALSE, male |-> TRUE],
      [id |-> EspeakId, zh |-> FALSE, en |-> FALSE, female |-> FALSE, male |-> FALSE] }

pyttsx3_features(voice) ==
    (IF voice.zh THEN {"zh"} ELSE {})
    \cup (IF voice.en THEN {"en"} ELSE {})
    \cup (IF voice.female THEN {"female"} ELSE IF voice.male THEN {"male"} ELSE {})

RECURSIVE pyttsx3_voice_info(_)
pyttsx3_voice_info(reported) ==
    IF reported = <<>> THEN <<>>
    ELSE <<[id |-> Head(reported).id, features |-> pyttsx3_features(Head(reported))]>>
         \o pyttsx3_voice_info(Tail(reported))

\* _load_available_voices: [] when pyttsx3.init() or the listing fails
pyttsx3_load_available_voices(reported, list_ok) ==
    IF list_ok THEN pyttsx3_voice_info(reported) ELSE <<>>

\* id of the first voice that has both features, or None
pyttsx3_find(voices, f1, f2) ==
    LET hits == SelectSeq(voices, LAMBDA v : f1 \in v.features /\ f2 \in v.features)
    IN IF hits = <<>> THEN NoneStr ELSE hits[1].id

pyttsx3_get_voice_pack_mapping(voices) ==
    IF voices = <<>> THEN EmptyDict
    ELSE
      LET chinese_female == pyttsx3_find(voices, "zh", "female")
          english_male == pyttsx3_find(voices, "en", "male")
          chinese_male == pyttsx3_find(voices, "zh", "male")
          k1 == IF chinese_female # NoneStr
                THEN {"default", "female", "child", "angry", "sad"} ELSE {}
          k2 == IF english_male # NoneStr \/ chinese_male # NoneStr
                THEN {"male", "robot"} ELSE {}
          k3 == IF chinese_male # NoneStr THEN {"elder"} ELSE {}
      IN [k \in k1 \cup k2 \cup k3 |->
             IF k \in k1 THEN chinese_female
             ELSE IF k \in k2
                  THEN (IF english_male # NoneStr THEN english_male ELSE chinese_male)
                  ELSE chinese_male]

\* pyttsx3_resolve_voice without the fallback to the 'default' entry
pyttsx3_resolve_voice_no_default(voices, voice_pack) ==
    LET voice_mapping == pyttsx3_get_voice_pack_mapping(voices)
        base_voice_pack == IF StartsWith(voice_pack, <<"pyttsx3_">>)
                           THEN DropPrefix(voice_pack, <<"pyttsx3_">>)
                           ELSE voice_pack
    IN DictGet(voice_mapping, base_voice_pack, NoneStr)

\* the voice id that synthesize selects (lines 158-173); None selects nothing
pyttsx3_resolve_voice(voices, voice_pack) ==
    LET voice_mapping == pyttsx3_get_voice_pack_mapping(voices)
        base_voice_pack == IF StartsWith(voice_pack, <<"pyttsx3_">>)
                           THEN DropPrefix(voice_pack, <<"pyttsx3_">>)
                           ELSE voice_pack
    IN DictGet(voice_mapping, base_voice_pack,
               DictGet(voice_mapping, Str("default"), NoneStr))

pyttsx3_synthesize(loaded, voices, voice_pack, outs) ==
    IF ~loaded THEN [audio |-> NoAudio, voice |-> NoneStr, attempts |-> 0]
    ELSE LET audio == outs[1]
         IN [audio |-> IF audio \in {Raises, NoAudio} \/ audio = 0 THEN NoAudio ELSE audio,
             voice |-> pyttsx3_resolve_voice(voices, voice_pack), attempts |-> 1]

----------------------------------------------------------------------------
(* CosyVoice adapter: src/src/core/real_cosyvoice_integration.py *)

voice_profiles == {"default", "male", "female", "child", "elder", "robot"}

\* the profile the stand-in model synthesizes with (lines 228-231, 122)
cosyvoice_resolve_profile(voice_pack) ==
    LET base_voice_pack == IF StartsWith(voice_pack, <<"cosyvoice_">>)
                           THEN DropPrefix(voice_pack, <<"cosyvoice_">>)
                           ELSE voice_pack
    IN IF Len(base_voice_pack) = 1 /\ base_voice_pack[1] \in voice_profiles
       THEN base_voice_pack ELSE Str("default")

\* the voice of the real model is its prompt audio (lines 235-243)
ZeroShotPrompt == <<"zero_shot_prompt">>

\* the stand-in model is given base_voice_pack and looks its profile up; the
\* real model is called without it (lines 238-243), so every voice pack
\* gives the same voice
cosyvoice_resolve_voice(real, voice_pack) ==
    IF real THEN ZeroShotPrompt
    ELSE cosyvoice_resolve_profile(voice_pack)

\* outs[1] = NoAudio: the inference yielded no result (lines 245-250, 261-269).
\* The stand-in model cannot yield zero samples: for an empty text its
\* fade-in (line 182) raises, and the exception is caught (line 282).
cosyvoice_synthesize(loaded, real, voice_pack, outs) ==
    IF ~loaded THEN [audio |-> NoAudio, voice |-> NoneStr, attempts |-> 0]
    ELSE LET audio == outs[1]
         IN [audio |-> IF audio \in {Raises, NoAudio} \/ (~real /\ audio = 0)
                       THEN NoAudio ELSE audio,
             voice |-> cosyvoice_resolve_voice(real, voice_pack), attempts |-> 1]

----------------------------------------------------------------------------
(* Engine registry: src/src/core/tts_engine.py *)

LoadOutcomes == {"true", "false", "raise"}   \* what an adapter's load_model does
BackendOutcomes == {Raises, NoAudio} \cup (0..MaxSamples)
BackendRuns == [1..max_retries -> BackendOutcomes]

\* only the Edge-TTS adapter calls its backend more than once per request
RunsFor(engine_name) ==
    IF engine_name = "edge_tts" THEN BackendRuns
    ELSE {outs \in BackendRuns : \A a \in 2..max_retries : outs[a] = NoAudio}

\* try_candidate without the inner handler: the adapter's exception leaves the loop
try_candidate_uncaught(st, engine_name, outcome) ==
    LET st1 == [st EXCEPT !.attempted = Append(@, engine_name)]
    IN IF outcome = "true"
       THEN [st1 EXCEPT !.available_engines = Append(@, engine_name),
                        !.current_engine = IF @ = None THEN engine_name ELSE @]
       ELSE IF outcome = "false" THEN st1
       ELSE [st1 EXCEPT !.raised = TRUE]

\* try_candidate without the test of line 54: every success becomes current
try_candidate_last_wins(st, engine_name, outcome) ==
    LET st1 == [st EXCEPT !.attempted = Append(@, engine_name)]
    IN IF outcome = "true"
       THEN [st1 EXCEPT !.available_engines = Append(@, engine_name),
                        !.current_engine = engine_name]
       ELSE st1

\* one iteration of the loop over the candidates (lines 50-60); st.raised
\* says that an exception is propagating out of the loop
try_candidate(st, engine_name, outcome) ==
    LET st1 == [st EXCEPT !.attempted = Append(@, engine_name)]
    IN IF outcome = "true"
       THEN [st1 EXCEPT !.available_engines = Append(@, engine_name),
                        !.current_engine = IF @ = None THEN engine_name ELSE @]
       ELSE IF outcome = "false" THEN st1
       ELSE st1     \* the exception is caught and logged (lines 59-60)

RECURSIVE load_loop(_, _, _)
load_loop(st, i, outcomes) ==
    IF i > Len(Engines) \/ st.raised THEN st
    ELSE load_loop(try_candidate(st, Engines[i], outcomes[Engines[i]]), i + 1, outcomes)

\* the value load_model returns (lines 62-72)
load_model_result(st) ==
    IF st.raised THEN FALSE
    ELSE IF st.available_engines = <<>> THEN FALSE
    ELSE TRUE

load_model_run(avail, cur, outcomes) ==
    load_loop([available_engines |-> avail, current_engine |-> cur,
               attempted |-> <<>>, raised |-> FALSE], 1, outcomes)

InSeq(x, s) == \E i \in 1..Len(s) : s[i] = x

\* set_current_engine without the membership test
set_current_engine_unchecked(avail, cur, engine_name) ==
    [current_engine |-> engine_name, ok |-> TRUE]

\* set_current_engine that assigns before it tests
set_current_engine_assign_first(avail, cur, engine_name) ==
    [current_engine |-> engine_name, ok |-> InSeq(engine_name, avail)]

\* set_current_engine (lines 78-86)
set_current_engine(avail, cur, engine_name) ==
    IF InSeq(engine_name, avail)
    THEN [current_engine |-> engine_name, ok |-> TRUE]
    ELSE [current_engine |-> cur, ok |-> FALSE]

\* the adapter a registry branch calls (lines 103-110)
adapter_synthesize(ad, engine_name, voice_pack, outs) ==
    CASE engine_name = "edge_tts" ->
           edge_synthesize(ad.model["edge_tts"], ad.edge_voices, voice_pack, outs)
      [] engine_name = "gtts" ->
           gtts_synthesize(ad.model["gtts"], voice_pack, outs)
      [] engine_name = "pyttsx3" ->
           pyttsx3_synthesize(ad.model["pyttsx3"], ad.pyttsx3_voices, voice_pack, outs)
      [] engine_name = "cosyvoice" ->
           cosyvoice_synthesize(ad.model["cosyvoice"], ad.use_real_model, voice_pack, outs)

\* registry_call with a cross-engine fallback: a failed adapter is followed
\* by the next available engine's adapter
registry_call_fallback(ad, avail, cur, target, voice_pack, outs) ==
    LET r == adapter_synthesize(ad, target, voice_pack, outs)
        others == SelectSeq(avail, LAMBDA e : e # target)
    IN IF r.audio = NoAudio /\ others # <<>>
       THEN LET r2 == adapter_synthesize(ad, others[1], voice_pack, outs)
            IN [audio |-> r2.audio, calls |-> <<target, others[1]>>,
                results |-> <<r.audio, r2.audio>>, voice |-> r2.voice,
                attempts |-> r2.attempts, current_engine |-> cur]
       ELSE [audio |-> r.audio, calls |-> <<target>>, results |-> <<r.audio>>,
             voice |-> r.voice, attempts |-> r.attempts, current_engine |-> cur]

\* registry_call that moves the registry off an engine whose adapter failed
registry_call_switch(ad, avail, cur, target, voice_pack, outs) ==
    LET r == adapter_synthesize(ad, target, voice_pack, outs)
        others == SelectSeq(avail, LAMBDA e : e # target)
    IN [audio |-> r.audio, calls |-> <<target>>, results |-> <<r.audio>>,
        voice |-> r.voice, attempts |-> r.attempts,
        current_engine |-> IF r.audio = NoAudio /\ others # <<>> THEN others[1] ELSE cur]

\* the branch taken once a comparison of current_engine has matched: one
\* adapter call whose result is returned (lines 103-110)
registry_call(ad, avail, cur, target, voice_pack, outs) ==
    LET r == adapter_synthesize(ad, target, voice_pack, outs)
    IN [audio |-> r.audio, calls |-> <<target>>, results |-> <<r.audio>>,
        voice |-> r.voice, attempts |-> r.attempts, current_engine |-> cur]

----------------------------------------------------------------------------
(* State and steps *)

Idle == [pc |-> "idle", k |-> 0, target |-> None, voice_pack |-> <<>>]

NoLast == [op |-> "none", by |-> "none", arg |-> None, ok |-> FALSE,
           audio |-> NoAudio, raised |-> FALSE, attempted |-> <<>>,
           loaded_now |-> <<>>, caught |-> <<>>, calls |-> <<>>, results |-> <<>>,
           voice |-> NoneStr, attempts |-> 0]

\* no EdgeTTSIntegration.synthesize is running
EdgeIdle == [pc |-> "idle", attempt |-> 0, outs |-> <<>>, voice_pack |-> <<>>]

Free == "free"
CacheThreads == {"t1", "t2"}
CacheKeys == {"k1", "k2", "k3"}
CacheValues == {"v1"}
max_size == 2       \* Cache(max_size); the default is 100

CacheIdle == [at |-> "idle", op |-> "none", key |-> None, value |-> None,
              oldest_key |-> None, result |-> None]

InitCache ==
    /\ cache = [k \in {} |-> None]
    /\ access_times = <<>>
    /\ cache_lock = Free
    /\ cache_pc = [t \in CacheThreads |-> CacheIdle]
    /\ time_now = 0
    /\ lru = <<>>

\* a SynthesisThread that has not been created yet
\* engine: tts_engine.current_engine when start_synthesis created the
\* thread, kept while the thread runs
Unborn == [pc |-> "unborn", signals |-> <<>>, handled |-> FALSE, engine |-> None]

\* MainWindow after init_ui: create_left_panel lines 278-290
InitWindow ==
    /\ gui = [synthesize_btn |-> TRUE, play_btn |-> FALSE, save_btn |-> FALSE,
              current_audio |-> NoAudio, synthesis_thread |-> 0, dialogs |-> 0]
    /\ workers = [i \in 1..MaxWorkers |-> Unborn]
    /\ gui_events = <<>>

\* no BatchSynthesisThread has been created
\* tasks is the widget's list self.tasks, which the thread shares; started
\* is its content when the thread was created, processed the tasks the
\* thread has taken, fresh the next task add_task creates
NoBatch == [pc |-> "none", i |-> 0, total |-> 0, in_flight |-> 0, log |-> <<>>,
            results |-> <<>>, tasks |-> <<>>, started |-> <<>>,
            processed |-> <<>>, fresh |-> 1]

NoFile == [frames |-> <<>>, samplerate |-> 0, subtype |-> "none"]

\* nothing to save yet
NoWav == [pc |-> "none", audio |-> <<>>, sample_rate |-> 0, file |-> NoFile,
          loaded |-> <<>>, loaded_rate |-> 0]

\* no call of the stand-in model yet; librosa works
NoPh == [librosa_ok |-> TRUE, results |-> <<>>]

\* no command of main.py has been invoked
NoCli == [cmd |-> None, pc |-> "idle", play |-> FALSE, log |-> <<>>,
          failed_at |-> None]

\* process_text_list has not been called
NoCoreBatch == [pc |-> "none", outs |-> <<>>, voice_pack |-> <<>>,
                raised |-> FALSE, report |-> [success |-> FALSE]]

InitExt ==
    /\ cli = NoCli
    /\ core_batch = NoCoreBatch
    /\ edge_call = EdgeIdle
    /\ InitCache
    /\ InitWindow
    /\ batch = NoBatch
    /\ wav = NoWav
    /\ ph = NoPh

\* the voice packs requests name
RequestPacks ==
    {Str(p) : p \in BasePacks}
    \cup {<<"edge_tts_", "male">>, <<"gtts_", "male">>, <<"pyttsx3_", "male">>,
          <<"cosyvoice_", "male">>, YunjianNeural, Str("whisper")}

RegistryPacks == {Str("default"), <<"gtts_", "male">>}

AdapterState == [model |-> model, edge_voices |-> edge_voices,
                 pyttsx3_voices |-> pyttsx3_voices, use_real_model |-> use_real_model]

InitCore ==
    /\ available_engines = <<>>
    /\ current_engine = None
    /\ model = [e \in EngineNames |-> FALSE]
    /\ edge_voices = <<>>
    /\ pyttsx3_voices = <<>>
    /\ use_real_model = FALSE
    /\ load_state = [e \in EngineNames |-> "NOT_ATTEMPTED"]
    /\ load_attempts = [e \in EngineNames |-> 0]
    /\ main_pc = "start"
    /\ syn = Idle
    /\ last = NoLast

InitRegistry ==
    /\ InitCore
    /\ InitExt

\* what the voice services report in the runs of the registry
InitBackend ==
    backend = [edge |-> <<[name |-> AriaNeural, gender |-> "Female", locale |-> "en-US"],
                             [name |-> XiaoxiaoNeural, gender |-> "Female", locale |-> "zh-CN"]>>,
                  pyttsx3 |-> <<[id |-> ZiraId, zh |-> FALSE, en |-> TRUE,
                                 female |-> FALSE, male |-> TRUE]>>,
                  edge_list_ok |-> TRUE, pyttsx3_list_ok |-> TRUE,
                  real_model |-> FALSE]

Init ==
    /\ InitRegistry
    /\ InitBackend

\* the adapters' own load_model: what a load outcome leaves in the adapter
adapter_load(attempted, outcomes, edge_list_ok, pyttsx3_list_ok, real) ==
    LET loads(e) == InSeq(e, attempted) /\ outcomes[e] = "true"
    IN /\ model' = [e \in EngineNames |-> model[e] \/ loads(e)]
       /\ edge_voices' = IF loads("edge_tts")
                         THEN edge_load_available_voices(backend.edge, edge_list_ok)
                         ELSE edge_voices
       /\ pyttsx3_voices' = IF loads("pyttsx3")
                            THEN pyttsx3_load_available_voices(backend.pyttsx3, pyttsx3_list_ok)
                            ELSE pyttsx3_voices
       /\ use_real_model' = IF loads("cosyvoice") THEN real ELSE use_real_model

\* what TTSEngine.load_model leaves in the registry and the adapters
load_model_state(outcomes, edge_list_ok, pyttsx3_list_ok, real) ==
    LET st == load_model_run(available_engines, current_engine, outcomes)
    IN /\ available_engines' = st.available_engines
       /\ current_engine' = st.current_engine
       /\ adapter_load(st.attempted, outcomes, edge_list_ok, pyttsx3_list_ok, real)
       /\ load_state' = [e \in EngineNames |->
                           IF InSeq(e, st.attempted)
                           THEN (IF outcomes[e] = "true" THEN "LOADED" ELSE "FAILED")
                           ELSE load_state[e]]
       /\ load_attempts' = [e \in EngineNames |->
                              load_attempts[e] + (IF InSeq(e, st.attempted) THEN 1 ELSE 0)]

\* TTSEngine.load_model, called from the place named by
load_model(by, outcomes, edge_list_ok, pyttsx3_list_ok, real) ==
    LET st == load_model_run(available_engines, current_engine, outcomes)
    IN /\ syn.pc = "idle"
       /\ load_model_state(outcomes, edge_list_ok, pyttsx3_list_ok, real)
       /\ last' = [NoLast EXCEPT !.op = "load_model", !.by = by,
                                 !.ok = load_model_result(st),
                                 !.attempted = st.attempted,
                                 !.raised = FALSE,
                                 !.loaded_now = SelectSeq(st.attempted,
                                                    LAMBDA e : outcomes[e] = "true"),
                                 !.caught = SelectSeq(st.attempted,
                                                LAMBDA e : outcomes[e] = "raise")]
       /\ UNCHANGED <<backend, syn, ext_vars>>

LoadModel(by) ==
    \E outcomes \in [EngineNames -> LoadOutcomes] :
        load_model(by, outcomes, backend.edge_list_ok, backend.pyttsx3_list_ok,
                   backend.real_model)

\* MainWindow.__init__ -> init_tts_engine (src/src/gui/main_window.py)
InitTtsEngine ==
    /\ main_pc = "start"
    /\ main_pc' = "window"
    /\ LoadModel("init_tts_engine")

\* gui.py main: the preload after the window has been constructed
GuiMainPreload ==
    /\ main_pc = "window"
    /\ main_pc' = "running"
    /\ LoadModel("gui_main")

\* main.py test: the command-line self-test loads once
CliTestLoad ==
    /\ main_pc = "start"
    /\ main_pc' = "running"
    /\ LoadModel("cli_test")

SetCurrentEngine(engine_name) ==
    LET r == set_current_engine(available_engines, current_engine, engine_name)
    IN /\ main_pc = "running"
       /\ current_engine' = r.current_engine
       /\ last' = [NoLast EXCEPT !.op = "set_current_engine", !.arg = engine_name,
                                 !.ok = r.ok]
       /\ UNCHANGED <<available_engines, model, edge_voices, pyttsx3_voices,
                      use_real_model, backend, load_state, load_attempts,
                      main_pc, syn, ext_vars>>

\* TTSEngine.synthesize up to its first comparison (lines 95-100)
SynthesizeEnter(voice_pack) ==
    /\ main_pc = "running"
    /\ syn.pc = "idle"
    /\ IF available_engines = <<>>
       THEN /\ syn' = Idle
            /\ last' = [NoLast EXCEPT !.op = "synthesize", !.by = "return",
                                      !.arg = voice_pack]
       ELSE /\ syn' = [pc |-> "dispatch", k |-> 1, target |-> None,
                       voice_pack |-> voice_pack]
            /\ last' = [NoLast EXCEPT !.op = "synthesize", !.by = "enter",
                                      !.arg = voice_pack]
    /\ UNCHANGED <<available_engines, current_engine, model, edge_voices,
                   pyttsx3_voices, use_real_model, backend, load_state,
                   load_attempts, main_pc, ext_vars>>

\* one comparison of the if/elif chain; each reads current_engine (lines 103-113)
SynthesizeCompare ==
    /\ syn.pc = "dispatch"
    /\ IF current_engine = Engines[syn.k]
       THEN /\ syn' = [syn EXCEPT !.pc = "adapter", !.target = Engines[syn.k]]
            /\ last' = [NoLast EXCEPT !.op = "synthesize", !.by = "compare",
                                      !.arg = syn.voice_pack]
       ELSE IF syn.k < Len(Engines)
       THEN /\ syn' = [syn EXCEPT !.k = @ + 1]
            /\ last' = [NoLast EXCEPT !.op = "synthesize", !.by = "compare",
                                      !.arg = syn.voice_pack]
       ELSE /\ syn' = Idle
            /\ last' = [NoLast EXCEPT !.op = "synthesize", !.by = "return",
                                      !.arg = syn.voice_pack]
    /\ UNCHANGED <<available_engines, current_engine, model, edge_voices,
                   pyttsx3_voices, use_real_model, backend, load_state,
                   load_attempts, main_pc, ext_vars>>

\* the matched branch: the adapter call and the return of its result
SynthesizeCall(outs) ==
    /\ syn.pc = "adapter"
    /\ LET r == registry_call(AdapterState, available_engines, current_engine,
                              syn.target, syn.voice_pack, outs)
       IN /\ last' = [NoLast EXCEPT !.op = "synthesize", !.by = "return",
                                    !.arg = syn.voice_pack, !.audio = r.audio,
                                    !.calls = r.calls, !.results = r.results,
                                    !.voice = r.voice, !.attempts = r.attempts]
          /\ current_engine' = r.current_engine
    /\ syn' = Idle
    /\ UNCHANGED <<available_engines, model, edge_voices,
                   pyttsx3_voices, use_real_model, backend, load_state,
                   load_attempts, main_pc, ext_vars>>

Next ==
    \/ InitTtsEngine
    \/ GuiMainPreload
    \/ CliTestLoad
    \/ \E e \in EngineNames \cup {UnknownEngine} : SetCurrentEngine(e)
    \/ \E vp \in RegistryPacks : SynthesizeEnter(vp)
    \/ SynthesizeCompare
    \/ \E outs \in RunsFor(syn.target) : SynthesizeCall(outs)

Spec == Init /\ [][Next]_vars

----------------------------------------------------------------------------
(* The adapters on their own: each is a module-level object whose          *)
(* load_model and voice resolution can be used without the registry.       *)

\* the lists without repetition, of length at most n, over the set U
ListsOver(U, n) ==
    {l \in UNION {[1..k -> U] : k \in 0..n} :
        \A i, j \in 1..Len(l) : i # j => l[i] # l[j]}

\* the voice a request for voice_pack resolves to in adapter engine_name
adapter_resolve_voice(ad, engine_name, voice_pack) ==
    CASE engine_name = "edge_tts" -> edge_resolve_voice(ad.edge_voices, voice_pack)
      [] engine_name = "gtts" -> gtts_resolve_config(voice_pack).lang
      [] engine_name = "pyttsx3" -> pyttsx3_resolve_voice(ad.pyttsx3_voices, voice_pack)
      [] engine_name = "cosyvoice" -> cosyvoice_resolve_voice(ad.use_real_model, voice_pack)

\* the name an adapter looks up: edge_tts, pyttsx3 and cosyvoice remove their
\* own prefix first, gtts looks the identifier up as it is
adapter_base_voice_pack(engine_name, voice_pack) ==
    LET prefix == CASE engine_name = "edge_tts" -> <<"edge_tts_">>
                    [] engine_name = "pyttsx3" -> <<"pyttsx3_">>
                    [] engine_name = "cosyvoice" -> <<"cosyvoice_">>
                    [] engine_name = "gtts" -> <<>>
    IN IF prefix # <<>> /\ StartsWith(voice_pack, prefix)
       THEN DropPrefix(voice_pack, prefix) ELSE voice_pack

\* the keys of the mapping an adapter looks the name up in
adapter_mapping_keys(ad, engine_name) ==
    CASE engine_name = "edge_tts" -> DOMAIN edge_get_voice_pack_mapping(ad.edge_voices)
      [] engine_name = "gtts" -> DOMAIN gtts_get_voice_pack_mapping
      [] engine_name = "pyttsx3" ->
           DOMAIN pyttsx3_get_voice_pack_mapping(ad.pyttsx3_voices)
      [] engine_name = "cosyvoice" -> IF ad.use_real_model THEN {} ELSE voice_profiles

\* the two voice services are independent: a behaviour varies what one of
\* them reports and whether the real CosyVoice model is installed
InitVoice ==
    /\ InitRegistry
    /\ \E ev \in ListsOver(EdgeBackendVoices, MaxVoices),
          pv \in ListsOver(Pyttsx3BackendVoices, MaxVoices),
          real \in BOOLEAN :
         /\ ev = <<>> \/ pv = <<>>
         /\ backend = [edge |-> ev, pyttsx3 |-> pv, edge_list_ok |-> TRUE,
                       pyttsx3_list_ok |-> TRUE, real_model |-> real]

\* one adapter's load_model, called directly
AdapterLoadModel(engine_name, outcome) ==
    /\ adapter_load(<<engine_name>>, [e \in EngineNames |-> outcome],
                    backend.edge_list_ok, backend.pyttsx3_list_ok, backend.real_model)
    /\ last' = [NoLast EXCEPT !.op = "adapter_load_model", !.by = engine_name,
                              !.ok = (outcome = "true")]
    /\ UNCHANGED <<available_engines, current_engine, backend, load_state,
                   load_attempts, main_pc, syn, ext_vars>>

\* the voice resolution of a loaded adapter's synthesize
ResolveVoice(engine_name, voice_pack) ==
    /\ model[engine_name]
    /\ last' = [NoLast EXCEPT !.op = "resolve_voice", !.by = engine_name,
                              !.arg = voice_pack,
                              !.voice = adapter_resolve_voice(AdapterState, engine_name,
                                                              voice_pack)]
    /\ UNCHANGED <<available_engines, current_engine, model, edge_voices,
                   pyttsx3_voices, use_real_model, backend, load_state,
                   load_attempts, main_pc, syn, ext_vars>>

NextVoice ==
    \/ \E e \in EngineNames, o \in {"true", "false"} : AdapterLoadModel(e, o)
    \/ \E e \in EngineNames, vp \in RequestPacks : ResolveVoice(e, vp)

SpecVoice == InitVoice /\ [][NextVoice]_vars

----------------------------------------------------------------------------
(* EdgeTTSIntegration.synthesize step by step: one step per pass of its   *)
(* retry loop.                                                              *)

\* synthesize up to the retry loop (lines 132-203)
EdgeSynthesizeBegin(voice_pack) ==
    /\ edge_call.pc = "idle"
    /\ IF ~model["edge_tts"]
       THEN /\ edge_call' = EdgeIdle
            /\ last' = [NoLast EXCEPT !.op = "edge_synthesize", !.by = "return",
                                      !.arg = voice_pack]
       ELSE /\ edge_call' = [pc |-> "attempt", attempt |-> 0, outs |-> <<>>,
                             voice_pack |-> voice_pack]
            /\ last' = [NoLast EXCEPT !.op = "edge_synthesize", !.by = "enter",
                                      !.arg = voice_pack,
                                      !.voice = edge_resolve_voice(edge_voices, voice_pack)]
    /\ UNCHANGED not_edge

\* one pass of the loop: the remote call gives out (lines 205-232)
EdgeAttempt(out) ==
    /\ edge_call.pc = "attempt"
    /\ LET r == edge_attempt(edge_call.attempt, out)
           outs == Append(edge_call.outs, out)
       IN IF r.done
          THEN /\ edge_call' = [EdgeIdle EXCEPT !.outs = outs]
               /\ last' = [NoLast EXCEPT !.op = "edge_synthesize", !.by = "return",
                                         !.arg = edge_call.voice_pack,
                                         !.audio = r.audio,
                                         !.attempts = Len(outs),
                                         !.voice = last.voice]
          ELSE /\ edge_call' = [edge_call EXCEPT !.attempt = r.attempt, !.outs = outs]
               /\ last' = [last EXCEPT !.by = "retry"]
    /\ UNCHANGED not_edge

NextEdge ==
    \/ \E o \in {"true", "false"} : AdapterLoadModel("edge_tts", o)
    \/ \E vp \in RegistryPacks : EdgeSynthesizeBegin(vp)
    \/ \E out \in BackendOutcomes : EdgeAttempt(out)

\* the thread that runs synthesize keeps running, and each remote call ends
SpecEdge ==
    /\ Init
    /\ [][NextEdge]_vars
    /\ WF_vars(\E out \in BackendOutcomes : EdgeAttempt(out))

----------------------------------------------------------------------------
(* Cache: src/src/core/performance_optimizer.py. Each access to the two    *)
(* dicts is a step, taken by one of several threads.                        *)

TimeKeys(times) == {times[i].key : i \in 1..Len(times)}
TimeOf(times, key) == (CHOOSE i \in 1..Len(times) : times[i].key = key)

\* access_times[key] = t: an existing key keeps its place, a new one is last
times_put(times, key, t) ==
    IF key \in TimeKeys(times)
    THEN [times EXCEPT ![TimeOf(times, key)].time = t]
    ELSE Append(times, [key |-> key, time |-> t])

\* del access_times[key]
times_del(times, key) == SelectSeq(times, LAMBDA e : e.key # key)

\* min(access_times.keys(), key=lambda k: access_times[k]): the first key,
\* in the dict's order, that has the smallest time
times_min(times) ==
    LET i == CHOOSE i \in 1..Len(times) :
                 /\ \A j \in 1..Len(times) : times[i].time <= times[j].time
                 /\ \A j \in 1..(i - 1) : times[j].time > times[i].time
    IN times[i].key

dict_put(d, key, value) == [k \in DOMAIN d \cup {key} |-> IF k = key THEN value ELSE d[k]]
dict_del(d, key) == [k \in DOMAIN d \ {key} |-> d[k]]

\* lock.acquire without waiting for the holder
lock_acquire_unchecked(lk, t) == [ok |-> TRUE, lock |-> t]

\* 'with self.lock': the lock is taken when it is free
lock_acquire(lk, t) ==
    IF lk = Free THEN [ok |-> TRUE, lock |-> t] ELSE [ok |-> FALSE, lock |-> lk]

\* the key becomes the most recently used one
lru_touch(order, key) == Append(SelectSeq(order, LAMBDA k : k # key), key)

CacheStep(t, at) == cache_pc' = [cache_pc EXCEPT ![t].at = at]

CacheLast(t, by) ==
    last' = [NoLast EXCEPT !.op = cache_pc[t].op, !.by = by, !.arg = t]

\* the system clock moves on
Tick ==
    /\ time_now < MaxTime
    /\ time_now' = time_now + 1
    /\ last' = [NoLast EXCEPT !.op = "tick"]
    /\ UNCHANGED <<not_cache, cache, access_times, cache_lock, cache_pc, lru>>

\* a thread calls get(key), set(key, value) or clear()
CacheCall(t, op, key, value) ==
    /\ cache_pc[t].at = "idle"
    /\ cache_pc' = [cache_pc EXCEPT ![t] = [CacheIdle EXCEPT !.at = "lock", !.op = op,
                                                            !.key = key, !.value = value]]
    /\ last' = [NoLast EXCEPT !.op = op, !.by = "call", !.arg = t]
    /\ UNCHANGED <<not_cache, cache, access_times, cache_lock, time_now, lru>>

\* with self.lock: (lines 46, 54, 66)
CacheAcquire(t) ==
    /\ cache_pc[t].at = "lock"
    /\ lock_acquire(cache_lock, t).ok
    /\ cache_lock' = lock_acquire(cache_lock, t).lock
    /\ CacheStep(t, CASE cache_pc[t].op = "cache_get" -> "test"
                      [] cache_pc[t].op = "cache_set" -> "len"
                      [] cache_pc[t].op = "cache_clear" -> "clear_cache")
    /\ CacheLast(t, "acquire")
    /\ UNCHANGED <<not_cache, cache, access_times, time_now, lru>>

\* get: if key in self.cache (line 47)
GetTest(t) ==
    /\ cache_pc[t].at = "test"
    /\ CacheStep(t, IF cache_pc[t].key \in DOMAIN cache THEN "touch" ELSE "unlock")
    /\ CacheLast(t, "test")
    /\ UNCHANGED <<not_cache, cache, access_times, cache_lock, time_now, lru>>

\* get: self.access_times[key] = time.time() (line 48)
GetTouch(t) ==
    /\ cache_pc[t].at = "touch"
    /\ access_times' = times_put(access_times, cache_pc[t].key, time_now)
    /\ lru' = lru_touch(lru, cache_pc[t].key)
    /\ CacheStep(t, "read")
    /\ CacheLast(t, "touch")
    /\ UNCHANGED <<not_cache, cache, cache_lock, time_now>>

\* get: return self.cache[key] (line 49)
GetRead(t) ==
    /\ cache_pc[t].at = "read"
    /\ cache_pc[t].key \in DOMAIN cache
    /\ cache_pc' = [cache_pc EXCEPT ![t].at = "unlock",
                                    ![t].result = cache[cache_pc[t].key]]
    /\ CacheLast(t, "read")
    /\ UNCHANGED <<not_cache, cache, access_times, cache_lock, time_now, lru>>

\* a test that lets the cache grow one entry past max_size
cache_is_full_late(n) == n > max_size

\* len(self.cache) >= self.max_size (line 55)
cache_is_full(n) == n >= max_size

\* set: if len(self.cache) >= self.max_size (line 55)
SetLen(t) ==
    /\ cache_pc[t].at = "len"
    /\ CacheStep(t, IF cache_is_full(Cardinality(DOMAIN cache)) THEN "min" ELSE "put_cache")
    /\ CacheLast(t, "len")
    /\ UNCHANGED <<not_cache, cache, access_times, cache_lock, time_now, lru>>

\* set: oldest_key = min(...) (lines 56-57)
SetMin(t) ==
    /\ cache_pc[t].at = "min"
    /\ access_times # <<>>
    /\ cache_pc' = [cache_pc EXCEPT ![t].at = "del_cache",
                                    ![t].oldest_key = times_min(access_times)]
    /\ CacheLast(t, "min")
    /\ UNCHANGED <<not_cache, cache, access_times, cache_lock, time_now, lru>>

\* set: del self.cache[oldest_key] (line 58)
SetDelCache(t) ==
    /\ cache_pc[t].at = "del_cache"
    /\ cache_pc[t].oldest_key \in DOMAIN cache
    /\ cache' = dict_del(cache, cache_pc[t].oldest_key)
    /\ CacheStep(t, "del_times")
    /\ CacheLast(t, "del_cache")
    /\ UNCHANGED <<not_cache, access_times, cache_lock, time_now, lru>>

\* set: del self.access_times[oldest_key] (line 59)
SetDelTimes(t) ==
    /\ cache_pc[t].at = "del_times"
    /\ access_times' = times_del(access_times, cache_pc[t].oldest_key)
    /\ lru' = SelectSeq(lru, LAMBDA k : k # cache_pc[t].oldest_key)
    /\ CacheStep(t, "put_cache")
    /\ CacheLast(t, "del_times")
    /\ UNCHANGED <<not_cache, cache, cache_lock, time_now>>

\* set: self.cache[key] = value (line 62)
SetPutCache(t) ==
    /\ cache_pc[t].at = "put_cache"
    /\ cache' = dict_put(cache, cache_pc[t].key, cache_pc[t].value)
    /\ CacheStep(t, "put_times")
    /\ CacheLast(t, "put_cache")
    /\ UNCHANGED <<not_cache, access_times, cache_lock, time_now, lru>>

\* set: self.access_times[key] = time.time() (line 63)
SetPutTimes(t) ==
    /\ cache_pc[t].at = "put_times"
    /\ access_times' = times_put(access_times, cache_pc[t].key, time_now)
    /\ lru' = lru_touch(lru, cache_pc[t].key)
    /\ CacheStep(t, "unlock")
    /\ CacheLast(t, "put_times")
    /\ UNCHANGED <<not_cache, cache, cache_lock, time_now>>

\* clear: self.cache.clear() (line 67)
ClearCache(t) ==
    /\ cache_pc[t].at = "clear_cache"
    /\ cache' = [k \in {} |-> None]
    /\ CacheStep(t, "clear_times")
    /\ CacheLast(t, "clear_cache")
    /\ UNCHANGED <<not_cache, access_times, cache_lock, time_now, lru>>

\* clear: self.access_times.clear() (line 68)
ClearTimes(t) ==
    /\ cache_pc[t].at = "clear_times"
    /\ access_times' = <<>>
    /\ lru' = <<>>
    /\ CacheStep(t, "unlock")
    /\ CacheLast(t, "clear_times")
    /\ UNCHANGED <<not_cache, cache, cache_lock, time_now>>

\* the end of the with block, and the return
CacheRelease(t) ==
    /\ cache_pc[t].at = "unlock"
    /\ cache_lock' = IF cache_lock = t THEN Free ELSE cache_lock
    /\ cache_pc' = [cache_pc EXCEPT ![t] = CacheIdle]
    /\ last' = [NoLast EXCEPT !.op = cache_pc[t].op, !.by = "return", !.arg = t,
                              !.voice = <<cache_pc[t].key, cache_pc[t].result,
                                          cache_pc[t].oldest_key>>]
    /\ UNCHANGED <<not_cache, cache, access_times, time_now, lru>>

NextCache ==
    \/ Tick
    \/ \E t \in CacheThreads :
          \/ \E k \in CacheKeys : CacheCall(t, "cache_get", k, None)
          \/ \E k \in CacheKeys, v \in CacheValues : CacheCall(t, "cache_set", k, v)
          \/ CacheCall(t, "cache_clear", None, None)
          \/ CacheAcquire(t)
          \/ GetTest(t) \/ GetTouch(t) \/ GetRead(t)
          \/ SetLen(t) \/ SetMin(t) \/ SetDelCache(t) \/ SetDelTimes(t)
          \/ SetPutCache(t) \/ SetPutTimes(t)
          \/ ClearCache(t) \/ ClearTimes(t)
          \/ CacheRelease(t)

SpecCache == Init /\ [][NextCache]_vars

----------------------------------------------------------------------------
(* The main window and its synthesis threads: src/src/gui/main_window.py   *)

\* the window once gui.py's start-up has run: init_tts_engine and the
\* preload of gui.main have both loaded edge_tts and gtts
InitGui ==
    /\ available_engines = <<"edge_tts", "gtts", "edge_tts", "gtts">>
    /\ current_engine = "edge_tts"
    /\ backend = [edge |-> <<[name |-> AriaNeural, gender |-> "Female", locale |-> "en-US"],
                             [name |-> XiaoxiaoNeural, gender |-> "Female", locale |-> "zh-CN"]>>,
                  pyttsx3 |-> <<[id |-> ZiraId, zh |-> FALSE, en |-> TRUE,
                                 female |-> FALSE, male |-> TRUE]>>,
                  edge_list_ok |-> TRUE, pyttsx3_list_ok |-> TRUE,
                  real_model |-> FALSE]
    /\ model = [e \in EngineNames |-> e \in {"edge_tts", "gtts"}]
    /\ edge_voices = edge_load_available_voices(backend.edge, TRUE)
    /\ pyttsx3_voices = <<>>
    /\ use_real_model = FALSE
    /\ load_state = [e \in EngineNames |->
                        IF e \in {"edge_tts", "gtts"} THEN "LOADED" ELSE "FAILED"]
    /\ load_attempts = [e \in EngineNames |-> 2]
    /\ main_pc = "running"
    /\ syn = Idle
    /\ last = NoLast
    /\ InitExt

\* run with a branch that emits nothing when synthesize returns None
thread_run_signals_silent(out) ==
    IF out = Raises THEN <<"synthesis_failed">>
    ELSE IF out # NoAudio THEN <<"synthesis_completed">>
    ELSE <<>>

\* the signals SynthesisThread.run emits once tts_engine.synthesize has
\* given out, or its try block has raised (lines 58-68)
thread_run_signals(out) ==
    IF out = Raises THEN <<"synthesis_failed">>
    ELSE IF out # NoAudio THEN <<"synthesis_completed">>
    ELSE <<"synthesis_failed">>

Running(i) == workers[i].pc \in {"started", "synth"}

\* MainWindow.start_synthesis (lines 770-808)
start_synthesis(by, text_empty) ==
    /\ gui.dialogs = 0
    /\ IF text_empty
       THEN /\ UNCHANGED gui_vars
            /\ last' = [NoLast EXCEPT !.op = "start_synthesis", !.by = by,
                                      !.arg = "empty_text"]
       ELSE \E i \in 1..MaxWorkers :
              /\ workers[i].pc = "unborn"
              /\ \A j \in 1..(i - 1) : workers[j].pc # "unborn"
              /\ gui' = [gui EXCEPT !.synthesize_btn = FALSE, !.play_btn = FALSE,
                                    !.save_btn = FALSE, !.synthesis_thread = i]
              /\ workers' = [workers EXCEPT ![i].pc = "started",
                                            ![i].engine = current_engine]
              /\ UNCHANGED gui_events
              /\ last' = [NoLast EXCEPT !.op = "start_synthesis", !.by = by,
                                        !.attempts = i]
    /\ UNCHANGED not_gui

\* the synthesize button: clicked.connect(self.start_synthesis) (line 278)
ClickSynthesize(text_empty) ==
    /\ gui.synthesize_btn
    /\ start_synthesis("synthesize_btn", text_empty)

\* the toolbar's start action and its menu entry (lines 533, 549-563)
on_start_synthesis(text_empty) ==
    /\ gui.dialogs = 0
    /\ start_synthesis("toolbar", text_empty)

\* the engine combo box: on_engine_changed (lines 732-742)
on_engine_changed(engine_name) ==
    /\ gui.dialogs = 0
    /\ InSeq(engine_name, available_engines)
    /\ SetCurrentEngine(engine_name)

\* SynthesisThread.run up to the call of tts_engine.synthesize (lines 46-56)
ThreadRunEnter(i) ==
    /\ workers[i].pc = "started"
    /\ workers' = [workers EXCEPT ![i].pc = "synth"]
    /\ last' = [NoLast EXCEPT !.op = "thread_run", !.by = "enter", !.attempts = i]
    /\ UNCHANGED <<not_gui, gui, gui_events>>

\* the rest of run: tts_engine.synthesize dispatches on the registry's
\* current_engine (tts_engine.py lines 102-113), the call gives out and the
\* signal is emitted (lines 58-68)
ThreadRunReturn(i, out) ==
    /\ workers[i].pc = "synth"
    /\ LET sigs == thread_run_signals(out)
       IN /\ workers' = [workers EXCEPT ![i].pc = "done", ![i].signals = sigs,
                                        ![i].engine = None]
          /\ gui_events' = gui_events \o
                 [k \in 1..Len(sigs) |-> [signal |-> sigs[k], thread |-> i, audio |-> out]]
    /\ last' = [NoLast EXCEPT !.op = "thread_run", !.by = "return", !.attempts = i,
                              !.audio = out, !.arg = current_engine]
    /\ UNCHANGED <<not_gui, gui>>

\* on_synthesis_completed (lines 810-853)
on_synthesis_completed ==
    /\ gui_events # <<>>
    /\ Head(gui_events).signal = "synthesis_completed"
    /\ gui' = [gui EXCEPT !.current_audio = Head(gui_events).audio,
                          !.play_btn = TRUE, !.save_btn = TRUE,
                          !.synthesize_btn = TRUE]
    /\ workers' = [workers EXCEPT ![Head(gui_events).thread].handled = TRUE]
    /\ gui_events' = Tail(gui_events)
    /\ last' = [NoLast EXCEPT !.op = "on_synthesis_completed",
                              !.attempts = Head(gui_events).thread]
    /\ UNCHANGED not_gui

\* on_synthesis_failed up to the error dialog (lines 855-859)
on_synthesis_failed ==
    /\ gui_events # <<>>
    /\ Head(gui_events).signal = "synthesis_failed"
    /\ gui' = [gui EXCEPT !.dialogs = @ + 1]
    /\ workers' = [workers EXCEPT ![Head(gui_events).thread].handled = TRUE]
    /\ gui_events' = Tail(gui_events)
    /\ last' = [NoLast EXCEPT !.op = "on_synthesis_failed", !.by = "dialog",
                              !.attempts = Head(gui_events).thread]
    /\ UNCHANGED not_gui

\* the user closes the error dialog; on_synthesis_failed goes on to
\* reset_ui (lines 860, 905-908)
CloseErrorDialog ==
    /\ gui.dialogs > 0
    /\ gui' = [gui EXCEPT !.dialogs = @ - 1, !.synthesize_btn = TRUE]
    /\ last' = [NoLast EXCEPT !.op = "on_synthesis_failed", !.by = "return"]
    /\ UNCHANGED <<not_gui, workers, gui_events>>

GuiOutcomes == {Raises, NoAudio} \cup (0..MaxSamples)

NextGui ==
    \/ \E text_empty \in BOOLEAN : ClickSynthesize(text_empty)
    \/ \E text_empty \in BOOLEAN : on_start_synthesis(text_empty)
    \/ \E e \in EngineNames : on_engine_changed(e)
    \/ \E i \in 1..MaxWorkers : ThreadRunEnter(i)
    \/ \E i \in 1..MaxWorkers, out \in GuiOutcomes : ThreadRunReturn(i, out)
    \/ on_synthesis_completed
    \/ on_synthesis_failed
    \/ CloseErrorDialog

\* a started thread runs, its synthesize call returns, and the event loop
\* delivers the queued signals
SpecGui ==
    /\ InitGui
    /\ [][NextGui]_vars
    /\ \A i \in 1..MaxWorkers :
          /\ WF_vars(ThreadRunEnter(i))
          /\ WF_vars(\E out \in GuiOutcomes : ThreadRunReturn(i, out))
    /\ WF_vars(on_synthesis_completed)
    /\ WF_vars(on_synthesis_failed)

----------------------------------------------------------------------------
(* The batch thread: src/src/ui/batch_processor.py                          *)

\* the positional arguments AudioProcessor.save_audio requires
\* (src/src/audio/audio_processor.py lines 59-61)
save_audio_required == 4

\* a call of save_audio with argc positional arguments: TypeError when
\* required ones are missing
save_audio_call_raises(argc) == argc < save_audio_required

Signal(sig, a, b) == [sig |-> sig, a |-> a, b |-> b]

\* batch_item_signals whose except branch does not report the progress
batch_item_signals_no_progress(i, total, out) ==
    IF out = NoAudio
    THEN <<Signal("item_completed", i, 0), Signal("progress_updated", i + 1, total)>>
    ELSE IF out = Raises \/ save_audio_call_raises(2)
    THEN <<Signal("item_completed", i, 0)>>
    ELSE <<Signal("item_completed", i, 1), Signal("progress_updated", i + 1, total)>>

\* what one pass of the loop emits once the synthesize call for task i has
\* given out (lines 49-67); the audio is saved with
\* audio_processor.save_audio(audio, filepath)
batch_item_signals(i, total, out) ==
    IF out = NoAudio
    THEN <<Signal("item_completed", i, 0), Signal("progress_updated", i + 1, total)>>
    ELSE IF out = Raises \/ save_audio_call_raises(2)
    THEN <<Signal("item_completed", i, 0), Signal("progress_updated", i + 1, total)>>
    ELSE <<Signal("item_completed", i, 1), Signal("progress_updated", i + 1, total)>>

\* BatchProcessor.start_batch_processing: the thread is created with the
\* task list and started (lines 414-419)
BatchStart(total) ==
    /\ batch.pc = "none"
    /\ batch' = [NoBatch EXCEPT !.pc = "loop", !.total = total,
                                !.tasks = [k \in 1..total |-> k],
                                !.started = [k \in 1..total |-> k],
                                !.fresh = total + 1]
    /\ last' = [NoLast EXCEPT !.op = "batch_start", !.attempts = total]
    /\ UNCHANGED not_batch

\* run: enumerate(self.tasks) yields the next task and its
\* tts_engine.synthesize call starts (lines 38-47)
BatchSynthesize ==
    /\ batch.pc = "loop"
    /\ batch.i < Len(batch.tasks)
    /\ batch' = [batch EXCEPT !.pc = "synth", !.in_flight = @ + 1,
                              !.processed = Append(@, batch.tasks[batch.i + 1]),
                              !.log = Append(@, Signal("synthesize", batch.i, 0))]
    /\ last' = [NoLast EXCEPT !.op = "batch_run", !.by = "synthesize"]
    /\ UNCHANGED not_batch

\* run: the call gives out, the item is saved and reported (lines 49-67)
BatchItem(out) ==
    /\ batch.pc = "synth"
    /\ batch' = [batch EXCEPT !.pc = "loop", !.in_flight = @ - 1, !.i = @ + 1,
                              !.results = Append(@, out),
                              !.log = @ \o batch_item_signals(batch.i, batch.total, out)]
    /\ last' = [NoLast EXCEPT !.op = "batch_run", !.by = "item", !.audio = out]
    /\ UNCHANGED not_batch

\* what run emits after its loop (line 69)
batch_run_end(log) == Append(log, Signal("batch_completed", 0, 0))

\* run: the iterator over self.tasks is exhausted (line 69)
BatchCompleted ==
    /\ batch.pc = "loop"
    /\ batch.i >= Len(batch.tasks)
    /\ batch' = [batch EXCEPT !.pc = "done", !.log = batch_run_end(@)]
    /\ last' = [NoLast EXCEPT !.op = "batch_run", !.by = "return"]
    /\ UNCHANGED not_batch

NextBatch ==
    \/ \E total \in 1..MaxTasks : BatchStart(total)
    \/ BatchSynthesize
    \/ \E out \in GuiOutcomes : BatchItem(out)
    \/ BatchCompleted

SpecBatch == Init /\ [][NextBatch]_vars

\* BatchProcessor.add_task while the batch thread runs (lines 332-354):
\* a line of text is appended to self.tasks
add_task ==
    /\ batch.pc \in {"loop", "synth"}
    /\ batch.fresh <= MaxTasks
    /\ batch' = [batch EXCEPT !.tasks = Append(@, batch.fresh), !.fresh = @ + 1]
    /\ last' = [NoLast EXCEPT !.op = "add_task"]
    /\ UNCHANGED not_batch

\* BatchProcessor.clear_tasks while the batch thread runs (lines 356-359)
clear_tasks ==
    /\ batch.pc \in {"loop", "synth"}
    /\ batch.tasks # <<>>
    /\ batch' = [batch EXCEPT !.tasks = <<>>]
    /\ last' = [NoLast EXCEPT !.op = "clear_tasks"]
    /\ UNCHANGED not_batch

NextBatchWidget ==
    \/ NextBatch
    \/ add_task
    \/ clear_tasks

\* the batch page: the thread together with the buttons that stay enabled
SpecBatchWidget == Init /\ [][NextBatchWidget]_vars

----------------------------------------------------------------------------
(* AudioProcessor.save_audio and load_audio:                                *)
(* src/src/audio/audio_processor.py. An audio array is the sequence of its  *)
(* samples, in units of 1/Full of full scale.                               *)

Full == 2
SampleValues == {-3, 0, 2}
SampleRates == {16000, 22050}

Abs(x) == IF x < 0 THEN -x ELSE x

\* np.max(np.abs(audio_data)) of a non-empty array
Peak(data) == CHOOSE m \in {Abs(data[i]) : i \in 1..Len(data)} :
                  \A i \in 1..Len(data) : Abs(data[i]) <= m

\* audio_data / np.max(np.abs(audio_data)) (line 86)
Normalize(data) ==
    [i \in 1..Len(data) |->
        IF data[i] < 0 THEN -((-data[i] * Full) \div Peak(data))
        ELSE (data[i] * Full) \div Peak(data)]

RECURSIVE TrimSilence(_)
TrimSilence(data) ==
    IF data = <<>> THEN data
    ELSE IF data[Len(data)] = 0 THEN TrimSilence(SubSeq(data, 1, Len(data) - 1))
    ELSE data

\* save_audio that does not write trailing silence
save_audio_trimmed(audio_data, sample_rate) ==
    IF audio_data = <<>> THEN [raised |-> TRUE, file |-> NoFile]
    ELSE LET data == IF Peak(audio_data) > Full THEN Normalize(audio_data)
                     ELSE audio_data
         IN [raised |-> FALSE,
             file |-> [frames |-> TrimSilence(data), samplerate |-> sample_rate,
                       subtype |-> "PCM_16"]]

\* save_audio (lines 76-99): np.max of an empty array raises, and the
\* handler re-raises; otherwise the samples, scaled down when their peak
\* exceeds full scale, are written as a WAV file
save_audio(audio_data, sample_rate) ==
    IF audio_data = <<>> THEN [raised |-> TRUE, file |-> NoFile]
    ELSE LET data == IF Peak(audio_data) > Full THEN Normalize(audio_data)
                     ELSE audio_data
         IN [raised |-> FALSE,
             file |-> [frames |-> data, samplerate |-> sample_rate,
                       subtype |-> "PCM_16"]]

\* load_audio (lines 111-118): sf.read of the file; raises when there is none
load_audio(file) ==
    IF file = NoFile THEN [raised |-> TRUE, audio_data |-> <<>>, sample_rate |-> 0]
    ELSE [raised |-> FALSE, audio_data |-> file.frames, sample_rate |-> file.samplerate]

\* the audio arrays synthesize returns: of any length, also empty
InitAudio ==
    /\ InitCore
    /\ InitBackend
    /\ edge_call = EdgeIdle
    /\ InitCache
    /\ InitWindow
    /\ batch = NoBatch
    /\ ph = NoPh
    /\ cli = NoCli
    /\ core_batch = NoCoreBatch
    /\ \E data \in UNION {[1..n -> SampleValues] : n \in 0..MaxFrames},
          sr \in SampleRates :
         wav = [NoWav EXCEPT !.pc = "audio", !.audio = data, !.sample_rate = sr]

SaveAudio ==
    /\ wav.pc = "audio"
    /\ LET r == save_audio(wav.audio, wav.sample_rate)
       IN /\ wav' = [wav EXCEPT !.pc = IF r.raised THEN "save_raised" ELSE "saved",
                                !.file = r.file]
          /\ last' = [NoLast EXCEPT !.op = "save_audio", !.raised = r.raised]
    /\ UNCHANGED not_wav

LoadAudio ==
    /\ wav.pc \in {"saved", "save_raised"}
    /\ LET r == load_audio(wav.file)
       IN /\ wav' = [wav EXCEPT !.pc = IF r.raised THEN "load_raised" ELSE "loaded",
                                !.loaded = r.audio_data,
                                !.loaded_rate = r.sample_rate]
          /\ last' = [NoLast EXCEPT !.op = "load_audio", !.raised = r.raised]
    /\ UNCHANGED not_wav

NextAudio ==
    \/ SaveAudio
    \/ LoadAudio

SpecAudio == InitAudio /\ [][NextAudio]_vars

----------------------------------------------------------------------------
(* The stand-in CosyVoice model: the number of samples it produces.         *)
(* src/src/core/real_cosyvoice_integration.py. Factors are in tenths.       *)

sample_rate == 22050
fade_samples == sample_rate \div 20           \* int(0.05 * self.sample_rate)

\* voice_profiles[...]['speed'] (lines 94-101)
profile_speed(profile) ==
    CASE profile = "male" -> 9
      [] profile = "female" -> 11
      [] profile = "child" -> 13
      [] profile = "elder" -> 8
      [] OTHER -> 10

\* the samples _generate_speech_like_audio makes for a text (lines 106-129);
\* Raises when the fade-in does not fit (lines 181-182)
placeholder_length(text_len, voice_pack) ==
    LET audio_length == (sample_rate * text_len * 3) \div 10
        speed == profile_speed(cosyvoice_resolve_profile(voice_pack)[1])
        length == (audio_length * 10) \div speed
    IN IF length < fade_samples THEN Raises ELSE length

\* _adjust_speed (lines 286-302): librosa's time stretch rounds, the
\* resampling used when librosa fails truncates
adjust_speed(n, speed, librosa_ok) ==
    IF speed = 10 THEN n
    ELSE IF librosa_ok THEN (n * 20 + speed) \div (2 * speed)
    ELSE (n * 10) \div speed

\* _adjust_pitch (lines 304-315): librosa keeps the length; the fallback
\* changes the speed by 2 ** (pitch_shift / 12)
adjust_pitch(n, pitch, librosa_ok) ==
    IF pitch = 0 \/ librosa_ok THEN n
    ELSE adjust_speed(n, IF pitch = 12 THEN 20 ELSE 5, librosa_ok)

\* a synthesize whose sample count follows the random noise
placeholder_synthesize_seeded(loaded, req, librosa_ok, seed) ==
    IF ~loaded THEN NoAudio
    ELSE LET n == placeholder_length(req.text_len, req.voice_pack)
         IN IF n = Raises THEN NoAudio
            ELSE adjust_pitch(adjust_speed(n, req.speed, librosa_ok),
                              req.pitch, librosa_ok) + seed

\* RealCosyVoice2Integration.synthesize without the real model (lines
\* 220-284): the sample count of the audio it returns; seed stands for
\* the state of np.random, which only enters the sample values
placeholder_synthesize(loaded, req, librosa_ok, seed) ==
    IF ~loaded THEN NoAudio
    ELSE LET n == placeholder_length(req.text_len, req.voice_pack)
         IN IF n = Raises THEN NoAudio
            ELSE adjust_pitch(adjust_speed(n, req.speed, librosa_ok),
                              req.pitch, librosa_ok)

PlaceholderRequests ==
    [text_len : 0..MaxTextLen,
     voice_pack : {Str("default"), <<"cosyvoice_", "child">>, Str("whisper")},
     speed : {10, 13}, pitch : {0, 12}, energy : {10, 15}]

\* whether librosa's effects work is a property of the installation
InitPlaceholder ==
    /\ InitCore
    /\ InitBackend
    /\ edge_call = EdgeIdle
    /\ InitCache
    /\ InitWindow
    /\ batch = NoBatch
    /\ wav = NoWav
    /\ cli = NoCli
    /\ core_batch = NoCoreBatch
    /\ \E ok \in BOOLEAN : ph = [NoPh EXCEPT !.librosa_ok = ok]

\* the first and the second call of synthesize
PlaceholderSynthesize(req, seed) ==
    /\ Len(ph.results) < 2
    /\ ~use_real_model
    /\ LET n == placeholder_synthesize(model["cosyvoice"], req, ph.librosa_ok, seed)
       IN /\ ph' = [ph EXCEPT !.results = Append(@, [req |-> req, n |-> n, seed |-> seed])]
          /\ last' = [NoLast EXCEPT !.op = "placeholder_synthesize", !.audio = n]
    /\ UNCHANGED not_ph

NextPlaceholder ==
    \/ \E o \in {"true", "false"} : AdapterLoadModel("cosyvoice", o)
    \/ \E req \in PlaceholderRequests, seed \in 0..1 : PlaceholderSynthesize(req, seed)

SpecPlaceholder == InitPlaceholder /\ [][NextPlaceholder]_vars

----------------------------------------------------------------------------
(* The command line: src/main.py. Each command is a function whose body is  *)
(* one try block; a position is the call the command is about to make.      *)

CliCommands == {"synthesize", "list_voice_packs", "show_config", "test", "batch"}

\* the first call of a command
cli_first(cmd) ==
    CASE cmd = "synthesize" -> "is_model_loaded"
      [] cmd = "list_voice_packs" -> "get_available_voice_packs"
      [] cmd = "show_config" -> "config_model"
      [] cmd = "test" -> "load_model"
      [] cmd = "batch" -> "import"

cli_goto(cl, pc, level) == [cl EXCEPT !.pc = pc, !.log = Append(@, level)]
cli_return(cl, level) == cli_goto(cl, "returned", level)

\* an except clause that lets the exception leave the command
cli_except_reraise(cl) ==
    [cl EXCEPT !.pc = "propagated", !.failed_at = cl.pc]

\* except Exception as e: logger.error(...) (lines 86, 109, 138, 191, 221)
cli_except(cl) ==
    [cl EXCEPT !.pc = "returned", !.log = Append(@, "error"), !.failed_at = cl.pc]

\* synthesize (lines 40-87) after the call at cl.pc has given res
synthesize_next(cl, res) ==
    CASE cl.pc = "is_model_loaded" ->
           IF res = "true" THEN cli_goto(cl, "get_available_voice_packs", "info")
           ELSE cli_goto(cl, "load_model", "info")
      [] cl.pc = "load_model" ->
           IF res = "true" THEN cli_goto(cl, "get_available_voice_packs", "info")
           ELSE cli_return(cl, "error")
      [] cl.pc = "get_available_voice_packs" ->
           cli_goto(cl, "synthesize", IF res = "true" THEN "info" ELSE "warning")
      [] cl.pc = "synthesize" ->
           IF res = "true" THEN cli_goto(cl, "save_audio", "info")
           ELSE cli_return(cl, "error")
      [] cl.pc = "save_audio" -> cli_goto(cl, "get_audio_info", "info")
      [] cl.pc = "get_audio_info" ->
           IF res # "true" THEN cli_except(cl)       \* audio_info['duration']
           ELSE IF cl.play THEN cli_goto(cl, "play_audio", "info")
           ELSE cli_return(cl, "info")
      [] cl.pc = "play_audio" -> cli_return(cl, "info")

\* list_voice_packs (lines 91-110)
list_voice_packs_next(cl, res) ==
    CASE cl.pc = "get_available_voice_packs" ->
           IF res = "true" THEN cli_goto(cl, "get_voice_pack_info", "info")
           ELSE cli_return(cl, "warning")
      [] cl.pc = "get_voice_pack_info" -> cli_return(cl, "info")

\* show_config (lines 115-139)
show_config_next(cl, res) ==
    CASE cl.pc = "config_model" -> cli_goto(cl, "config_audio", "info")
      [] cl.pc = "config_audio" -> cli_goto(cl, "config_output", "info")
      [] cl.pc = "config_output" -> cli_return(cl, "info")

\* test (lines 143-192)
test_next(cl, res) ==
    CASE cl.pc = "load_model" ->
           IF res = "true" THEN cli_goto(cl, "synthesize", "info")
           ELSE cli_return(cl, "error")
      [] cl.pc = "synthesize" ->
           IF res = "true" THEN cli_goto(cl, "save_audio", "info")
           ELSE cli_goto(cl, "get_available_voice_packs", "error")
      [] cl.pc = "save_audio" -> cli_goto(cl, "get_audio_info", "info")
      [] cl.pc = "get_audio_info" ->
           IF res # "true" THEN cli_except(cl)       \* audio_info['duration']
           ELSE cli_goto(cl, "get_available_voice_packs", "info")
      [] cl.pc = "get_available_voice_packs" -> cli_return(cl, "info")

\* batch (lines 196-222)
batch_next(cl, res) ==
    CASE cl.pc = "import" -> cli_goto(cl, "process_text_list", "info")
      [] cl.pc = "process_text_list" ->
           cli_return(cl, IF res = "true" THEN "info" ELSE "error")

\* the command after the call at cl.pc has returned res or raised
cli_step(cl, res) ==
    IF res = "raise" THEN cli_except(cl)
    ELSE CASE cl.cmd = "synthesize" -> synthesize_next(cl, res)
           [] cl.cmd = "list_voice_packs" -> list_voice_packs_next(cl, res)
           [] cl.cmd = "show_config" -> show_config_next(cl, res)
           [] cl.cmd = "test" -> test_next(cl, res)
           [] cl.cmd = "batch" -> batch_next(cl, res)

\* what a call of the commands can give. TTSEngine defines no
\* is_model_loaded; save_audio, get_audio_info and play_audio are called
\* with arguments their signatures do not take; process_text_list calls
\* is_model_loaded outside its own try; a section of the configuration
\* that is no mapping has no items()/get()
call_results(call) ==
    CASE call = "is_model_loaded" -> {"raise"}
      [] call = "save_audio" -> IF save_audio_call_raises(2) THEN {"raise"} ELSE {"true"}
      [] call = "get_audio_info" -> {"raise"}
      [] call = "play_audio" -> {"raise"}
      [] call = "process_text_list" -> {"raise"}
      [] call = "import" -> {"true"}
      [] call = "get_available_voice_packs" -> {"true", "false"}
      [] call = "get_voice_pack_info" -> {"true", "false", "raise"}
      [] call \in {"config_model", "config_audio", "config_output"} -> {"true", "raise"}
      [] OTHER -> {}

CliLast(res) ==
    [NoLast EXCEPT !.op = "cli", !.by = cli.cmd, !.arg = cli.pc,
                   !.raised = (res = "raise")]

\* click dispatches the command named on the command line
CliInvoke(cmd, play) ==
    /\ cli.pc = "idle"
    /\ main_pc = "start"
    /\ cli' = [cli EXCEPT !.cmd = cmd, !.pc = cli_first(cmd), !.play = play,
                          !.log = Append(@, "info")]
    /\ last' = [NoLast EXCEPT !.op = "cli", !.by = cmd, !.arg = "invoke"]
    /\ UNCHANGED <<reg_vars, not_cli>>

\* tts_engine.load_model() (lines 48, 150)
CliLoadModel ==
    /\ cli.pc = "load_model"
    /\ \E outcomes \in [EngineNames -> LoadOutcomes] :
         LET st == load_model_run(available_engines, current_engine, outcomes)
             res == IF load_model_result(st) THEN "true" ELSE "false"
         IN /\ load_model_state(outcomes, backend.edge_list_ok,
                                 backend.pyttsx3_list_ok, backend.real_model)
            /\ cli' = cli_step(cli, res)
            /\ last' = CliLast(res)
    /\ UNCHANGED <<backend, main_pc, syn, not_cli>>

\* tts_engine.synthesize(...) (lines 59-65, 159): None without an engine,
\* else what the current engine's adapter returns
CliSynthesize(outs) ==
    /\ cli.pc = "synthesize"
    /\ LET audio == IF available_engines = <<>> \/ current_engine \notin EngineNames
                    THEN NoAudio
                    ELSE registry_call(AdapterState, available_engines, current_engine,
                                       current_engine, Str("default"), outs).audio
           res == IF audio \in {NoAudio, Raises} THEN "false" ELSE "true"
       IN /\ cli' = cli_step(cli, res)
          /\ last' = [CliLast(res) EXCEPT !.audio = audio]
    /\ UNCHANGED <<reg_vars, not_cli>>

\* any other call of a command
CliCall(res) ==
    /\ res \in call_results(cli.pc)
    /\ cli' = cli_step(cli, res)
    /\ last' = CliLast(res)
    /\ UNCHANGED <<reg_vars, not_cli>>

NextCli ==
    \/ \E cmd \in CliCommands, play \in BOOLEAN : CliInvoke(cmd, play)
    \/ CliLoadModel
    \/ \E outs \in RunsFor(current_engine) : CliSynthesize(outs)
    \/ \E res \in {"true", "false", "raise"} : CliCall(res)

SpecCli == Init /\ [][NextCli]_vars

----------------------------------------------------------------------------
(* The core batch processor: src/src/core/batch_processor.py                *)

\* the methods class TTSEngine defines (src/src/core/tts_engine.py)
TTSEngineMethods ==
    {"load_model", "get_available_engines", "set_current_engine",
     "get_current_engine", "synthesize", "get_engine_info", "get_all_engines_info",
     "get_voice_packs", "get_engine_voice_packs", "get_all_engine_voice_packs",
     "get_available_voice_packs", "get_available_engine_voice_packs",
     "get_voice_pack_info", "get_engine_voice_pack_info",
     "is_engine_voice_pack_available"}

\* one pass of the loop (lines 38-79): the entry appended for text i whose
\* synthesize call gave out; the audio is saved with
\* audio_processor.save_audio(audio, output_path)
process_text_item(i, out) ==
    IF out \in {NoAudio, Raises} \/ save_audio_call_raises(2)
    THEN [index |-> i, status |-> "failed"]
    ELSE [index |-> i, status |-> "success"]

\* BatchProcessor.process_text_list (lines 21-90) for texts whose synthesize
\* calls give outs; loaded and loadable say what is_model_loaded and
\* load_model would return. raised: an exception leaves the function
process_text_list(outs, loaded, loadable) ==
    IF outs = <<>>
    THEN [raised |-> FALSE, report |-> [success |-> FALSE]]
    ELSE IF "is_model_loaded" \notin TTSEngineMethods
    THEN [raised |-> TRUE, report |-> [success |-> FALSE]]      \* AttributeError, line 28
    ELSE IF ~loaded /\ ~loadable
    THEN [raised |-> FALSE, report |-> [success |-> FALSE]]
    ELSE LET results == [i \in 1..Len(outs) |-> process_text_item(i, outs[i])]
             success_count == Cardinality({i \in 1..Len(outs) : results[i].status = "success"})
         IN [raised |-> FALSE,
             report |-> [success |-> TRUE, total_texts |-> Len(outs),
                         success_count |-> success_count,
                         failed_count |-> Len(outs) - success_count,
                         results |-> results]]

\* a call of batch_processor.process_text_list(texts, voice_pack) in a
\* process where an engine can load
ProcessTextList(outs, voice_pack) ==
    /\ core_batch.pc = "none"
    /\ LET r == process_text_list(outs, available_engines # <<>>, TRUE)
       IN /\ core_batch' = [pc |-> "called", outs |-> outs, voice_pack |-> voice_pack,
                            raised |-> r.raised, report |-> r.report]
          /\ last' = [NoLast EXCEPT !.op = "process_text_list", !.raised = r.raised,
                                    !.arg = voice_pack]
    /\ UNCHANGED not_core_batch

NextCoreBatch ==
    \E outs \in UNION {[1..n -> GuiOutcomes] : n \in 0..MaxTasks},
       voice_pack \in RegistryPacks : ProcessTextList(outs, voice_pack)

SpecCoreBatch == Init /\ [][NextCoreBatch]_vars

----------------------------------------------------------------------------
(* Properties *)

Loaded(e) == InSeq(e, available_engines)
Returned(op) == last.op = op /\ last.by = "return"
Priority(e) == CHOOSE i \in 1..Len(Engines) : Engines[i] = e
SeqSet(s) == {s[i] : i \in 1..Len(s)}

\* C1: in every reachable state current_engine is None or one engine name
\* that is a member of available_engines.
C1_CurrentIsAvailable ==
    \/ current_engine = None
    \/ current_engine \in EngineNames /\ Loaded(current_engine)

C1_Witness ==
    /\ last.op = "set_current_engine" /\ last.ok
    /\ current_engine = "cosyvoice"
    /\ available_engines[1] # "cosyvoice"

\* C2: set_current_engine(e) returns True and makes e current exactly when e
\* is in available_engines; otherwise it returns False and changes neither
\* current_engine nor available_engines.
C2_SetCurrentEngine ==
    [][last'.op = "set_current_engine" =>
         /\ available_engines' = available_engines
         /\ IF Loaded(last'.arg)
            THEN last'.ok /\ current_engine' = last'.arg
            ELSE ~last'.ok /\ current_engine' = current_engine]_vars

C2_Witness ==
    /\ last.op = "set_current_engine" /\ ~last.ok
    /\ last.arg \in EngineNames
    /\ load_state[last.arg] = "FAILED"
    /\ current_engine \in EngineNames

\* C3: load_model never raises and attempts edge_tts, gtts, pyttsx3 and
\* cosyvoice in that order whatever each adapter's load does (returns True,
\* returns False or raises).
C3_AllCandidatesAttempted ==
    last.op = "load_model" => ~last.raised /\ last.attempted = Engines

C3_Witness ==
    /\ last.op = "load_model"
    /\ last.caught = <<"edge_tts">>
    /\ last.loaded_now = <<"gtts", "cosyvoice">>

\* C4: a load_model that starts with no current engine leaves as current the
\* earliest candidate, in priority order, whose load succeeded; the later
\* successful candidates are in available_engines and do not replace it.
C4_FirstLoadedIsCurrent ==
    [][(main_pc' # main_pc /\ current_engine = None) =>
         LET now == SeqSet(last'.loaded_now)
         IN /\ \A e \in now : InSeq(e, available_engines')
            /\ IF now = {} THEN current_engine' = None
               ELSE /\ current_engine' \in now
                    /\ \A e \in now : Priority(current_engine') <= Priority(e)]_vars

C4_Witness ==
    /\ last.op = "load_model" /\ last.by = "init_tts_engine"
    /\ last.loaded_now = <<"gtts", "pyttsx3", "cosyvoice">>
    /\ current_engine = "gtts"

C6_LoadAttemptedOnce ==
    \A e \in EngineNames : load_attempts[e] <= 1

\* C7 as stated: every synthesize call invokes exactly one adapter, the
\* current engine's, once, and returns its result.
C7_ExactlyOneAdapter ==
    Returned("synthesize") =>
        /\ Len(last.calls) = 1
        /\ last.audio = last.results[1]

\* C7 amended: a synthesize call invokes at most one adapter, at most once:
\* none (returning the null result) when no engine is available or when
\* current_engine matches none of the four names as the call compares it,
\* otherwise exactly the adapter whose name current_engine had when the
\* matching comparison read it, whose result it returns unchanged; a failure
\* of that adapter is returned without calling another engine's adapter.
C7_AtMostOneAdapter ==
    /\ [](Returned("synthesize") =>
            /\ Len(last.calls) <= 1
            /\ Len(last.results) = Len(last.calls)
            /\ last.calls = <<>> => last.audio = NoAudio
            /\ last.calls # <<>> => last.audio = last.results[1])
    /\ [][(syn.pc = "dispatch" /\ syn'.pc = "adapter") =>
             syn'.target = current_engine]_vars
    /\ [][(syn.pc = "adapter" /\ syn'.pc = "idle") =>
             last'.calls = <<syn.target>>]_vars

C7_Witness ==
    /\ Returned("synthesize")
    /\ last.calls = <<"gtts">> /\ last.audio = NoAudio
    /\ Len(available_engines) >= 2

\* C8: a synthesize call never raises, and whenever it has no non-empty
\* audio to return (no engine, backend error, empty audio) it returns None.
C8_NullOnEveryFailure ==
    Returned("synthesize") => ~last.raised /\ (last.audio = NoAudio \/ last.audio > 0)

\* C9: no step of a synthesize call, whether it ends in audio or in a
\* failure, changes current_engine or available_engines.
C9_SynthesizeFrame ==
    [][last'.op = "synthesize" =>
         /\ current_engine' = current_engine
         /\ available_engines' = available_engines]_vars

C9_Witness ==
    /\ Returned("synthesize")
    /\ last.calls = <<"edge_tts">> /\ last.audio = NoAudio /\ last.attempts = max_retries
    /\ current_engine = "edge_tts"
    /\ Len(available_engines) >= 2

\* C10: for every loaded engine and every supported voice pack the voice
\* identifier the adapter resolves is non-empty, whatever voices the backend
\* reported at load time.
C10_VoiceNonEmpty ==
    (last.op = "resolve_voice" /\ last.arg \in {Str(p) : p \in BasePacks}) =>
        last.voice # NoneStr /\ last.voice # <<>>

InMapping(engine_name, voice_pack) ==
    /\ Len(voice_pack) = 1
    /\ voice_pack[1] \in adapter_mapping_keys(AdapterState, engine_name)

IsEdgeVoiceName(voice_pack) ==
    StartsWith(voice_pack, <<"zh-CN-">>) /\ EndsWith(voice_pack, <<"Neural">>)

DefaultVoice(engine_name) ==
    adapter_resolve_voice(AdapterState, engine_name, Str("default"))

\* C11 as stated: for a loaded engine, an identifier that is not a key of
\* that engine's mapping resolves to the voice that 'default' resolves to.
C11_NotInMappingIsDefault ==
    (last.op = "resolve_voice" /\ ~InMapping(last.by, last.arg)) =>
        last.voice = DefaultVoice(last.by)

\* C11 amended: for a loaded engine, an identifier whose looked-up name (the
\* identifier without the engine's own prefix for edge_tts, pyttsx3 and
\* cosyvoice, the identifier itself for gtts) is not a key of that engine's
\* mapping and is not a full Edge-TTS voice name resolves to the voice that
\* 'default' resolves to; the lookup does not raise and changes nothing the
\* mapping is computed from.
C11_UnknownPackIsDefault ==
    /\ [](( /\ last.op = "resolve_voice"
            /\ ~InMapping(last.by, adapter_base_voice_pack(last.by, last.arg))
            /\ ~(last.by = "edge_tts"
                    /\ IsEdgeVoiceName(adapter_base_voice_pack(last.by, last.arg))))
          => ~last.raised /\ last.voice = DefaultVoice(last.by))
    /\ [][last'.op = "resolve_voice" =>
             UNCHANGED <<model, edge_voices, pyttsx3_voices, use_real_model>>]_vars

C11_Witness ==
    /\ last.op = "resolve_voice" /\ last.by = "pyttsx3"
    /\ last.arg = Str("whisper")
    /\ last.voice = HuihuiId

\* C12: EdgeTTSIntegration.synthesize on a loaded adapter makes at most
\* three remote attempts per request: it returns the audio of the first
\* attempt that gives non-empty audio and makes no further attempt, tries
\* again after an attempt without audio only while fewer than three attempts
\* have been made, returns None after the third failed attempt, and ends.
C12_EdgeRetry ==
    /\ [](Len(edge_call.outs) <= max_retries
            /\ (edge_call.pc = "attempt" => Len(edge_call.outs) < max_retries))
    /\ [][(edge_call.pc = "attempt" /\ edge_call' # edge_call) =>
             LET out == edge_call'.outs[Len(edge_call'.outs)]
                 made == Len(edge_call.outs) + 1
             IN /\ Len(edge_call'.outs) = made
                /\ out > 0 => Returned("edge_synthesize")' /\ last'.audio = out
                                 /\ last'.attempts = made
                /\ (out <= 0 /\ made < max_retries) => edge_call'.pc = "attempt"
                /\ (out <= 0 /\ made = max_retries) =>
                       Returned("edge_synthesize")' /\ last'.audio = NoAudio
                         /\ last'.attempts = max_retries]_vars
    /\ (edge_call.pc = "attempt") ~> (edge_call.pc = "idle")

C12_Witness ==
    /\ Returned("edge_synthesize")
    /\ edge_call.outs = <<Raises, 0, 1>>
    /\ last.audio = 1 /\ last.attempts = max_retries

InCache(t) == cache_pc[t].at \notin {"idle", "lock"}

\* C13: get, set and clear read and write cache and access_times only while
\* they hold the lock: a thread inside a method holds the lock, only the
\* holder changes the two dicts, and whenever the lock is free the two dicts
\* have the same keys.
C13_CacheUnderLock ==
    /\ [](\A t \in CacheThreads : InCache(t) => cache_lock = t)
    /\ [](cache_lock = Free => DOMAIN cache = TimeKeys(access_times))
    /\ [][(cache' # cache \/ access_times' # access_times) =>
             /\ cache_lock \in CacheThreads
             /\ cache_lock' = cache_lock
             /\ last'.arg = cache_lock]_vars

C13_Witness ==
    /\ cache_lock = Free
    /\ last.op = "cache_set" /\ last.by = "return" /\ last.voice[3] # None
    /\ \E t \in CacheThreads : cache_pc[t].at = "lock" /\ cache_pc[t].op = "cache_get"
    /\ DOMAIN cache = TimeKeys(access_times)
    /\ Cardinality(DOMAIN cache) = max_size

\* C14: the entry a set evicts is the least recently used one, the key whose
\* latest successful get or set is older than that of every other key in
\* the cache.
C14_EvictsLeastRecentlyUsed ==
    [][\A t \in CacheThreads :
          (cache_pc[t].at = "min" /\ cache_pc'[t].at = "del_cache") =>
              cache_pc'[t].oldest_key = Head(lru)]_vars

\* C15: at most one synthesis thread is running at any time, whatever the
\* user does (synthesize button, toolbar start action, engine changes), so
\* no two synthesize calls run at once.
C15_SingleWorker ==
    Cardinality({i \in 1..MaxWorkers : Running(i)}) <= 1

Emitted(i, signal) == InSeq(signal, workers[i].signals)

\* C19: every synthesis thread that was started and whose synthesize call
\* returns emits exactly one of synthesis_completed and synthesis_failed;
\* a failure brings up an error dialog, and when that dialog is closed
\* the synthesize button is enabled.
C19_OneSignalPerRequest ==
    /\ [](\A i \in 1..MaxWorkers :
            /\ Len(workers[i].signals) <= 1
            /\ workers[i].pc = "done" <=> Len(workers[i].signals) = 1
            /\ ~(Emitted(i, "synthesis_completed") /\ Emitted(i, "synthesis_failed")))
    /\ \A i \in 1..MaxWorkers :
          (workers[i].pc = "started") ~> (workers[i].pc = "done")
    /\ [][\A i \in 1..MaxWorkers :
            (Emitted(i, "synthesis_failed") /\ ~workers[i].handled /\ workers'[i].handled)
              => gui'.dialogs = gui.dialogs + 1]_vars
    /\ \A i \in 1..MaxWorkers :
          Emitted(i, "synthesis_failed") ~> workers[i].handled
    /\ [][gui'.dialogs < gui.dialogs => gui'.synthesize_btn]_vars

C19_Witness ==
    /\ last.op = "on_synthesis_failed" /\ last.by = "return"
    /\ gui.synthesize_btn /\ gui.dialogs = 0
    /\ workers[1].signals = <<"synthesis_failed">> /\ workers[1].handled
    /\ workers[2].signals = <<"synthesis_completed">>

LogHas(sig, a, from, to) ==
    \E q \in from..to : batch.log[q].sig = sig /\ batch.log[q].a = a

\* C16: the batch thread takes its tasks one after another in list order:
\* the synthesize call for task i+1 starts only after item_completed for
\* task i and progress_updated(i+1, total) have been emitted, and at most
\* one synthesize call of the thread is in flight.
C16_BatchInOrder ==
    /\ batch.in_flight <= 1
    /\ \A p \in 1..Len(batch.log) :
          batch.log[p].sig = "synthesize" =>
            LET k == batch.log[p].a
            IN /\ k = Cardinality({q \in 1..(p - 1) : batch.log[q].sig = "synthesize"})
               /\ k > 0 =>
                     \E p0 \in 1..(p - 1) :
                        /\ batch.log[p0].sig = "synthesize" /\ batch.log[p0].a = k - 1
                        /\ LogHas("item_completed", k - 1, p0 + 1, p - 1)
                        /\ \E q \in (p0 + 1)..(p - 1) :
                              batch.log[q] = Signal("progress_updated", k, batch.total)

C16_Witness ==
    /\ batch.pc = "done" /\ batch.total = MaxTasks
    /\ last.op = "batch_run" /\ last.by = "return"
    /\ Len(batch.log) = 3 * MaxTasks + 1

C20_CommandsCatchEverything ==
    [][cli' # cli =>
         /\ cli'.pc # "propagated"
         /\ last'.raised =>
              /\ cli'.pc = "returned"
              /\ cli'.failed_at = cli.pc
              /\ cli'.log = Append(cli.log, "error")]_vars

C20_Witness ==
    /\ cli.cmd = "test"
    /\ cli.pc = "returned"
    /\ cli.failed_at = "save_audio"
    /\ last.raised

\* C21: available_engines never holds the same engine identifier more than
\* once, whatever load_model calls and other registry operations were made.
C21_NoDuplicateEngines ==
    \A i, j \in 1..Len(available_engines) :
        available_engines[i] = available_engines[j] => i = j

\* C22: the adapter that serves a request of the main window is the engine
\* that was current when start_synthesis created the request's thread, also
\* when the engine selector is used while the thread runs.
C22_ServedByStartEngine ==
    [][\A i \in 1..MaxWorkers :
          (workers[i].pc = "synth" /\ workers'[i].pc = "done")
          => last'.arg = workers[i].engine]_vars

LogCount(sig, a) ==
    Cardinality({q \in 1..Len(batch.log) : batch.log[q].sig = sig /\ batch.log[q].a = a})

LogCountAll(sig) ==
    Cardinality({q \in 1..Len(batch.log) : batch.log[q].sig = sig})

\* C23: BatchSynthesisThread.run emits batch_completed exactly once, last,
\* after exactly one item_completed and one progress_updated for every task
\* of the batch, whether the task gave audio, gave none or raised;
\* batch_completed and error_occurred are never both emitted.
C23_CountsWhenDone ==
    /\ ~(LogCountAll("batch_completed") > 0 /\ LogCountAll("error_occurred") > 0)
    /\ LogCountAll("batch_completed") <= 1
    /\ batch.pc = "done" =>
          /\ batch.log[Len(batch.log)] = Signal("batch_completed", 0, 0)
          /\ LogCountAll("batch_completed") = 1
          /\ LogCountAll("item_completed") = batch.total
          /\ LogCountAll("progress_updated") = batch.total
          /\ \A k \in 0..(batch.total - 1) :
                /\ LogCount("item_completed", k) = 1
                /\ LogCount("progress_updated", k + 1) = 1

IsPrefix(a, b) == Len(a) <= Len(b) /\ SubSeq(b, 1, Len(a)) = a

\* C24: a running batch processes exactly the tasks that were in the list
\* when start_batch_processing was called, in that order, whatever add_task
\* and clear_tasks do meanwhile, and every progress_updated(current, total)
\* has current <= total.
C24_RunsStartedTasks ==
    /\ IsPrefix(batch.processed, batch.started)
    /\ batch.pc = "done" => batch.processed = batch.started
    /\ \A q \in 1..Len(batch.log) :
          batch.log[q].sig = "progress_updated" => batch.log[q].a <= batch.log[q].b

\* C25: process_text_list, for a non-empty list of texts, returns a report
\* with one result entry per text in input order, total_texts = len(texts),
\* success_count + failed_count = total_texts, and a text is reported
\* 'success' exactly when synthesize returned audio for it.
C25_ReportPerText ==
    (core_batch.pc = "called" /\ core_batch.outs # <<>>) =>
        /\ ~core_batch.raised
        /\ core_batch.report.success
        /\ core_batch.report.total_texts = Len(core_batch.outs)
        /\ core_batch.report.success_count + core_batch.report.failed_count
             = Len(core_batch.outs)
        /\ Len(core_batch.report.results) = Len(core_batch.outs)
        /\ \A i \in 1..Len(core_batch.outs) :
              /\ core_batch.report.results[i].index = i
              /\ core_batch.report.results[i].status = "success"
                   <=> core_batch.outs[i] \notin {NoAudio, Raises}

\* C26: the cache never holds more than max_size entries, whatever get, set
\* and clear calls are made, and set does not raise: min() has a key to
\* choose from and the key it chose is in both dicts when it is deleted.
C26_SizeBounded ==
    /\ Cardinality(DOMAIN cache) <= max_size
    /\ Len(access_times) <= max_size
    /\ \A t \in CacheThreads :
          /\ cache_pc[t].at = "min" => access_times # <<>>
          /\ cache_pc[t].at = "del_cache" => cache_pc[t].oldest_key \in DOMAIN cache
          /\ cache_pc[t].at = "del_times" =>
                cache_pc[t].oldest_key \in TimeKeys(access_times)

C26_Witness ==
    /\ Cardinality(DOMAIN cache) = max_size
    /\ last.op = "cache_set" /\ last.by = "put_cache"
    /\ \E t \in CacheThreads :
          /\ cache_lock = t
          /\ cache_pc[t].oldest_key # None
          /\ cache_pc[t].oldest_key \notin DOMAIN cache

\* C27: set(k, v) for a key k that is in the cache removes no other key,
\* also when the cache holds max_size entries.
C27_SetExistingKeepsOthers ==
    [][\A t \in CacheThreads :
          (/\ cache_pc[t].op = "cache_set"
           /\ cache_pc[t].at = "del_cache"
           /\ cache_pc[t].key \in DOMAIN cache)
          => (DOMAIN cache \ {cache_pc[t].key}) \subseteq DOMAIN cache']_vars

EnginePrefix(engine_name) ==
    CASE engine_name = "edge_tts" -> "edge_tts_"
      [] engine_name = "gtts" -> "gtts_"
      [] engine_name = "pyttsx3" -> "pyttsx3_"
      [] engine_name = "cosyvoice" -> "cosyvoice_"

\* C28: on every engine E, a request that names the engine-specific pack
\* 'E_p' of a base pack p resolves to the backend voice that a request
\* naming p resolves to on E.
C28_EnginePackIsBasePack ==
    (/\ last.op = "resolve_voice"
     /\ Len(last.arg) = 2
     /\ last.arg[1] = EnginePrefix(last.by)
     /\ last.arg[2] \in BasePacks)
    => last.voice = adapter_resolve_voice(AdapterState, last.by, Str(last.arg[2]))

\* C29: whenever no synthesis is in progress in the main window, the play
\* and save buttons are enabled exactly when an audio result is held.
C29_ButtonsFollowAudio ==
    (/\ \A i \in 1..MaxWorkers : ~Running(i)
     /\ gui_events = <<>>
     /\ gui.dialogs = 0
     /\ gui.synthesize_btn)
    => /\ gui.play_btn <=> gui.current_audio # NoAudio
       /\ gui.save_btn <=> gui.current_audio # NoAudio

====
